---------------------------- MODULE Spec2Model ----------------------------
(***************************************************************************)
(* pree (src/pree.go): a snapshot of /proc is read into a store of         *)
(* Process entries linked parent -> children, the memory and CPU of every  *)
(* subtree are accumulated lazily, and the tree below a root pid is        *)
(* printed with every node's children sorted by the accumulated metric.    *)
(*                                                                         *)
(* A *Process is modelled by its pid: the store holds at most one Process  *)
(* per pid, and only Processes of the store are ever linked.  RSS is in    *)
(* KiB; the float32 CPU fraction is modelled by a natural number of        *)
(* abstract units (no NaN, no rounding).                                   *)
(***************************************************************************)
EXTENDS Integers, Sequences, FiniteSets, TLC

\* The pids that /proc lists are 1..MaxPid; pid 0 is only ever a parent pid.
MaxPid == 3
\* RSS and CPU of one process range over 0..MaxMetric.
MaxMetric == 1

Pids == 1..MaxPid
Metrics == 0..MaxMetric

\* The depth of ReadProc recursion at which the Go runtime gives up (its stack
\* limit).  Every loop-free ancestor chain is at most MaxPid deep.
StackLimit == 2 * MaxPid

VARIABLES
    stat,      \* /proc/[pid]/stat: pid -> [PPid, RSS, CPU]
    avail,     \* the pids whose stat file can still be read
    procs,     \* Processes: pid -> Process
    files,     \* ReadProcs: the entries of /proc not yet visited
    stack,     \* the ReadProc calls in progress, innermost last
    ret,       \* what the innermost finished ReadProc returned to its caller
    failed,    \* the pids whose error ReadProcs printed
    pc,        \* where main is
    opts,      \* Options
    rootPid,   \* *rootPidFlag, once main has read it
    rstack,    \* the Print*Tree calls in progress, innermost last
    out,       \* the tree lines printed so far
    exitCode,  \* the status of os.Exit, 0 until then
    last,      \* the last direct call of CalcAccumRSS / CalcAccumCPU
    lastSort   \* the last sort.Stable of a Children slice

vars == <<stat, avail, procs, files, stack, ret, failed, pc, opts, rootPid,
          rstack, out, exitCode, last, lastSort>>

---------------------------------------------------------------------------
(* The record source *)

\* Following parent pids from p for k steps reaches 0.
RECURSIVE ReachesZero(_, _, _)
ReachesZero(st, p, k) ==
    IF p = 0 THEN TRUE
    ELSE IF k = 0 THEN FALSE
    ELSE ReachesZero(st, st[p].PPid, k - 1)

LoopFree(st) == \A p \in Pids : ReachesZero(st, p, MaxPid)

\* The chain of p: p and its ancestors, as far as k steps.
RECURSIVE Chain(_, _, _)
Chain(st, p, k) ==
    IF p = 0 \/ k = 0 THEN {}
    ELSE {p} \cup Chain(st, st[p].PPid, k - 1)

\* The cpu column is the rss column mirrored, so both have zeros and ties.
Records ==
    { [p \in Pids |-> [PPid |-> pp[p], RSS |-> m[p], CPU |-> MaxMetric - m[p]]] :
        pp \in [Pids -> 0..MaxPid], m \in [Pids -> Metrics] }

\* One fixed metric column: pid p has RSS p % (MaxMetric + 1).
FixedMetricRecords ==
    { st \in Records : \A p \in Pids : st[p].RSS = p % (MaxMetric + 1) }

---------------------------------------------------------------------------
(* ProcessStore: ReadProc and ReadProcs *)

\* The flag defaults; -rss and -cpu keep theirs throughout.
NoOpts == [Reverse |-> FALSE, Sort |-> "rss", ShowRSS |-> TRUE, ShowCPU |-> TRUE]
\* No call of CalcAccumRSS / CalcAccumCPU, no sort, yet.
NoCall == [pid |-> 0, metric |-> "none", val |-> 0, writes |-> 0, visits |-> 0,
           again |-> FALSE, prev |-> 0]
NoSort == [pid |-> 0, before |-> <<>>, opts |-> NoOpts]

\* proc := &Process{Pid: pid} with the fields read from stat.
NewProcess(pid) ==
    [Pid |-> pid, PPid |-> stat[pid].PPid, RSS |-> stat[pid].RSS,
     CPU |-> stat[pid].CPU, AccumRSS |-> 0, AccumCPU |-> 0, Children |-> <<>>]

\* if proc, ok := procs[pid]; ok { return proc, nil }
\* (InStoreNever: a ReadProc without that lookup.)
InStoreNever(P, pid) == FALSE
InStore(P, pid) == pid \in DOMAIN P

\* The parent has to be read first: proc.PPid != 0 and procs[proc.PPid] is absent.
\* (MissingParentNever: a ReadProc that never reads the parent first.)
MissingParentNever(P, pid) == FALSE
MissingParent(P, pid) ==
    /\ stat[pid].PPid # 0
    /\ stat[pid].PPid \notin DOMAIN P

\* parent.Children = append(parent.Children, proc); procs[pid] = proc
Link(P, pid) ==
    LET pp == stat[pid].PPid
        P1 == IF pp # 0
              THEN [P EXCEPT ![pp].Children = Append(@, pid)]
              ELSE P
    IN  [q \in DOMAIN P1 \cup {pid} |-> IF q = pid THEN NewProcess(pid) ELSE P1[q]]

\* ReadProcs after ReadProc returned r: an error is printed and the loop goes on
\* with the entries fs that are left.  (RemainingStopOnError: a loop that ends
\* at the first error.)
RemainingStopOnError(fs, r) == IF r = "err" THEN {} ELSE fs
Remaining(fs, r) == fs

Top == stack[Len(stack)]
Pop == SubSeq(stack, 1, Len(stack) - 1)

\* The innermost ReadProc returns r ("ok" or "err"): to the ReadProc that
\* waits for it, or to ReadProcs, which prints an error and goes on.
Return(r) ==
    /\ stack' = Pop
    /\ IF Len(stack) = 1
       THEN /\ ret' = "none"
            /\ failed' = IF r = "err" THEN failed \cup {Top.pid} ELSE failed
            /\ files' = Remaining(files, r)
       ELSE /\ ret' = r
            /\ UNCHANGED <<failed, files>>

\* ReadProcs: the next entry of /proc, in whatever order ReadDir lists them.
ReadProcsCall ==
    /\ pc = "enum" /\ stack = <<>> /\ files # {}
    /\ \E pid \in files :
        /\ files' = files \ {pid}
        /\ stack' = <<[pid |-> pid, at |-> "entry"]>>
    /\ UNCHANGED <<stat, avail, procs, ret, failed, pc, opts, rootPid, rstack,
                   out, exitCode, last, lastSort>>

\* ReadProc from its first line to its first return or its recursive call.
ReadProcEntry ==
    /\ pc = "enum" /\ stack # <<>> /\ Top.at = "entry"
    /\ LET pid == Top.pid IN
        IF InStore(procs, pid) THEN
            /\ Return("ok")
            /\ UNCHANGED <<procs, pc>>
        ELSE IF pid \notin avail THEN
            /\ Return("err")
            /\ UNCHANGED <<procs, pc>>
        ELSE IF MissingParent(procs, pid) THEN
            IF Len(stack) >= StackLimit THEN
                /\ pc' = "crashed"
                /\ UNCHANGED <<procs, stack, ret, failed, files>>
            ELSE
                /\ stack' = Append([stack EXCEPT ![Len(stack)].at = "wait"],
                                   [pid |-> stat[pid].PPid, at |-> "entry"])
                /\ UNCHANGED <<procs, ret, failed, files, pc>>
        ELSE
            /\ procs' = Link(procs, pid)
            /\ Return("ok")
            /\ UNCHANGED pc
    /\ UNCHANGED <<stat, avail, opts, rootPid, rstack, out, exitCode,
                   last, lastSort>>

\* ReadProc after ReadProc(procs, proc.PPid) has returned.
ReadProcResume ==
    /\ pc = "enum" /\ stack # <<>> /\ Top.at = "wait" /\ ret # "none"
    /\ IF ret = "err" THEN
            /\ Return("err")
            /\ UNCHANGED procs
       ELSE
            /\ procs' = Link(procs, Top.pid)
            /\ Return("ok")
    /\ UNCHANGED <<stat, avail, pc, opts, rootPid, rstack, out,
                   exitCode, last, lastSort>>

\* ReadProcs returns to main.
ReadProcsReturn ==
    /\ pc = "enum" /\ stack = <<>> /\ files = {}
    /\ pc' = "lookup"
    /\ UNCHANGED <<stat, avail, procs, files, stack, ret, failed, opts, rootPid,
                   rstack, out, exitCode, last, lastSort>>

NextStore == ReadProcsCall \/ ReadProcEntry \/ ReadProcResume \/ ReadProcsReturn

InitWith(st, av, p) ==
    /\ stat = st /\ avail = av
    /\ procs = << >> /\ files = Pids /\ stack = <<>> /\ ret = "none"
    /\ failed = {} /\ pc = p /\ opts = NoOpts /\ rootPid = 0
    /\ rstack = <<>> /\ out = <<>> /\ exitCode = 0
    /\ last = NoCall /\ lastSort = NoSort

\* Any record set, loops included, any set of vanished processes.
InitStore == \E st \in FixedMetricRecords, av \in SUBSET Pids : InitWith(st, av, "enum")

SpecStore == InitStore /\ [][NextStore]_vars

---------------------------------------------------------------------------
(* AggregationEngine: CalcAccumRSS and CalcAccumCPU *)

Field(m) == IF m = "rss" THEN "RSS" ELSE "CPU"
Accum(m) == IF m = "rss" THEN "AccumRSS" ELSE "AccumCPU"

\* if proc.AccumRSS > 0 { return proc.AccumRSS }
\* (CachedFromZero: the test written >= 0.)
CachedFromZero(x) == x >= 0
Cached(x) == x > 0

\* CalcAccum(P, p, m): proc.CalcAccumRSS() (m = "rss") or proc.CalcAccumCPU()
\* (m = "cpu") on the store P.  The result is the store after the call (P), the
\* value returned (v), the number of writes of a cache field (w) and the number
\* of calls made on children, nested ones included (c).
RECURSIVE CalcAccum(_, _, _)
RECURSIVE AddChildren(_, _, _, _)

\* for _, child := range proc.Children { proc.AccumRSS += child.CalcAccumRSS() }
AddChildren(P, p, m, i) ==
    IF i > Len(P[p].Children) THEN [P |-> P, w |-> 0, c |-> 0]
    ELSE LET r == CalcAccum(P, P[p].Children[i], m)
             P2 == [r.P EXCEPT ![p][Accum(m)] = @ + r.v]
             s == AddChildren(P2, p, m, i + 1)
         IN  [P |-> s.P, w |-> r.w + 1 + s.w, c |-> r.c + 1 + s.c]

CalcAccum(P, p, m) ==
    IF Cached(P[p][Accum(m)])
    THEN [P |-> P, v |-> P[p][Accum(m)], w |-> 0, c |-> 0]
    ELSE LET P1 == [P EXCEPT ![p][Accum(m)] = P[p][Field(m)]]
             r == AddChildren(P1, p, m, 1)
         IN  [P |-> r.P, v |-> r.P[p][Accum(m)], w |-> r.w + 1, c |-> r.c]

CalcAccumRSS(P, p) == CalcAccum(P, p, "rss")
CalcAccumCPU(P, p) == CalcAccum(P, p, "cpu")

\* What a direct call leaves behind: the store, and the record of the call.
Called(p, m, r) ==
    /\ procs' = r.P
    /\ last' = [pid |-> p, metric |-> m, val |-> r.v, writes |-> r.w,
                visits |-> r.c,
                again |-> (last.pid = p /\ last.metric = m),
                prev |-> last.val]

\* proc.CalcAccumRSS() on any Process of the finished store.
CallCalcAccumRSS ==
    /\ pc = "lookup"
    /\ \E p \in DOMAIN procs : Called(p, "rss", CalcAccumRSS(procs, p))
    /\ UNCHANGED <<stat, avail, files, stack, ret, failed, pc, opts, rootPid,
                   rstack, out, exitCode, lastSort>>

\* proc.CalcAccumCPU() on any Process of the finished store.
CallCalcAccumCPU ==
    /\ pc = "lookup"
    /\ \E p \in DOMAIN procs : Called(p, "cpu", CalcAccumCPU(procs, p))
    /\ UNCHANGED <<stat, avail, files, stack, ret, failed, pc, opts, rootPid,
                   rstack, out, exitCode, lastSort>>

\* Loop-free records, every one of them readable, every metric column.
InitAggr ==
    \E st \in {r \in Records : LoopFree(r)} : InitWith(st, Pids, "enum")

SpecAggr == InitAggr /\ [][NextStore \/ CallCalcAccumRSS]_vars

SpecMemo == InitAggr /\ [][NextStore \/ CallCalcAccumRSS \/ CallCalcAccumCPU]_vars

---------------------------------------------------------------------------
(* TreeSorter: sort.Stable(SortProcs{proc.Children, opts.Reverse, opts.SortFunc}) *)

\* opts.SortFunc: a.CalcAccumRSS() < b.CalcAccumRSS(), or the same on CPU.
\* Both calls may fill caches, so the store is part of the result.
SortFunc(P, a, b, m) ==
    LET ra == CalcAccum(P, a, m)
        rb == CalcAccum(ra.P, b, m)
    IN  [P |-> rb.P, less |-> ra.v < rb.v]

\* SortProcs.Less on the slice ch (indices from 1).  (LessKeepsDirection: a
\* Less that forgets procs.Reverse.)
LessKeepsDirection(P, ch, i, j, o) == SortFunc(P, ch[i], ch[j], o.Sort)
Less(P, ch, i, j, o) ==
    LET r == SortFunc(P, ch[i], ch[j], o.Sort)
    IN  [P |-> r.P, less |-> IF o.Reverse THEN ~r.less ELSE r.less]

\* SortProcs.Swap
Swap(ch, i, j) == [ch EXCEPT ![i] = ch[j], ![j] = ch[i]]

\* sort.Stable on fewer than 20 elements is one insertion sort:
\*   for i := a + 1; i < b; i++ {
\*       for j := i; j > a && data.Less(j, j-1); j-- { data.Swap(j, j-1) } }
RECURSIVE InsertionSort(_, _, _, _, _)
InsertionSort(P, ch, i, j, o) ==
    IF i > Len(ch) THEN [P |-> P, ch |-> ch]
    ELSE IF j > 1
    THEN LET l == Less(P, ch, j, j - 1, o)
         IN  IF l.less
             THEN InsertionSort(l.P, Swap(ch, j, j - 1), i, j - 1, o)
             ELSE InsertionSort(l.P, ch, i + 1, i + 1, o)
    ELSE InsertionSort(P, ch, i + 1, i + 1, o)

\* The store after the children of p were sorted in place.
SortChildren(P, p, o) ==
    LET r == InsertionSort(P, P[p].Children, 2, 2, o)
    IN  [r.P EXCEPT ![p].Children = r.ch]

\* The sort of the children of any one process of the finished store, with
\* either metric and either direction.
TreeSort ==
    /\ pc = "lookup"
    /\ \E p \in DOMAIN procs, m \in {"rss", "cpu"}, rev \in BOOLEAN :
        LET o == [NoOpts EXCEPT !.Sort = m, !.Reverse = rev] IN
        /\ procs' = SortChildren(procs, p, o)
        /\ lastSort' = [pid |-> p, before |-> procs[p].Children, opts |-> o]
    /\ pc' = "sorted"
    /\ UNCHANGED <<stat, avail, files, stack, ret, failed, opts, rootPid,
                   rstack, out, exitCode, last>>

SpecSort == InitAggr /\ [][NextStore \/ TreeSort]_vars

---------------------------------------------------------------------------
(* TreeRenderer and main *)

\* ShowProcess with -rss and -cpu: the calls that fill the caches of proc.
ShowProcess(P, p, o) ==
    LET P1 == IF o.ShowRSS THEN CalcAccumRSS(P, p).P ELSE P
    IN  IF o.ShowCPU THEN CalcAccumCPU(P1, p).P ELSE P1

\* The first half of PrintFancyTree / PrintBoringTree: the line of the process
\* is printed and its children are sorted.
PrintLine ==
    LET f == rstack[Len(rstack)]
        P1 == ShowProcess(procs, f.pid, opts)
    IN  /\ out' = Append(out, [pid |-> f.pid, depth |-> Len(rstack) - 1,
                               connector |-> f.connector,
                               joint |-> f.fancy /\ procs[f.pid].Children # <<>>])
        /\ procs' = SortChildren(P1, f.pid, opts)
        /\ lastSort' = [pid |-> f.pid, before |-> procs[f.pid].Children, opts |-> opts]
        /\ rstack' = [rstack EXCEPT ![Len(rstack)].i = 1]
        /\ UNCHANGED pc

\* The child the loop over proc.Children turns to after the i-th.
\* (NextChildSkipsLast: a loop that ends one child early.)
NextChildSkipsLast(n, i) == IF i + 1 = n THEN n + 1 ELSE i + 1
NextChild(n, i) == i + 1

\* The second half: for i, child := range proc.Children { Print*Tree(child, ...) }
PrintChildren ==
    LET f == rstack[Len(rstack)]
        ch == procs[f.pid].Children
    IN  /\ IF f.i <= Len(ch)
           THEN /\ rstack' = Append(
                        [rstack EXCEPT ![Len(rstack)].i = NextChild(Len(ch), f.i)],
                        [pid |-> ch[f.i], fancy |-> f.fancy, i |-> 0,
                         connector |-> IF ~f.fancy THEN ""
                                       ELSE IF f.i = Len(ch) THEN "last" ELSE "tee"])
                /\ UNCHANGED pc
           ELSE /\ rstack' = SubSeq(rstack, 1, Len(rstack) - 1)
                /\ pc' = IF Len(rstack) = 1 THEN "done" ELSE pc
        /\ UNCHANGED <<procs, out, lastSort>>

PrintFancyTree ==
    /\ pc = "render" /\ rstack # <<>> /\ rstack[Len(rstack)].fancy
    /\ IF rstack[Len(rstack)].i = 0 THEN PrintLine ELSE PrintChildren
    /\ UNCHANGED <<stat, avail, files, stack, ret, failed, opts, rootPid,
                   exitCode, last>>

PrintBoringTree ==
    /\ pc = "render" /\ rstack # <<>> /\ ~rstack[Len(rstack)].fancy
    /\ IF rstack[Len(rstack)].i = 0 THEN PrintLine ELSE PrintChildren
    /\ UNCHANGED <<stat, avail, files, stack, ret, failed, opts, rootPid,
                   exitCode, last>>

\* main, lines 268-291: the flags are parsed; an unknown -sort is fatal.
MainFlags ==
    /\ pc = "start"
    /\ \E sortFlag \in {"rss", "cpu", "pid"}, reverseFlag \in BOOLEAN :
        IF sortFlag \in {"rss", "cpu"}
        THEN /\ opts' = [opts EXCEPT !.Sort = sortFlag, !.Reverse = reverseFlag]
             /\ pc' = "enum"
             /\ UNCHANGED exitCode
        ELSE /\ pc' = "fatal" /\ exitCode' = 1
             /\ UNCHANGED opts
    /\ UNCHANGED <<stat, avail, procs, files, stack, ret, failed, rootPid,
                   rstack, out, last, lastSort>>

\* The root is in the store.  (RootFoundAlways: a main that does not test ok.)
RootFoundAlways(P, r) == TRUE
RootFound(P, r) == r \in DOMAIN P

\* main, lines 295-299: rootProc, ok := procs[*rootPidFlag]
MainLookup ==
    /\ pc = "lookup"
    /\ \E r \in Pids :
        /\ rootPid' = r
        /\ IF RootFound(procs, r)
           THEN pc' = "style" /\ UNCHANGED exitCode
           ELSE pc' = "fatal" /\ exitCode' = 1
    /\ UNCHANGED <<stat, avail, procs, files, stack, ret, failed, opts,
                   rstack, out, last, lastSort>>

\* main, lines 301-314: the style is chosen and Print*Root is called.
MainStyle ==
    /\ pc = "style"
    /\ \E styleFlag \in {"fancy", "boring", "auto", "plain"}, isTTY \in BOOLEAN :
        IF styleFlag = "fancy" \/ (styleFlag = "auto" /\ isTTY)
        THEN /\ rstack' = <<[pid |-> rootPid, fancy |-> TRUE, i |-> 0, connector |-> ""]>>
             /\ pc' = "render" /\ UNCHANGED exitCode
        ELSE IF styleFlag = "boring" \/ (styleFlag = "auto" /\ ~isTTY)
        THEN /\ rstack' = <<[pid |-> rootPid, fancy |-> FALSE, i |-> 0, connector |-> ""]>>
             /\ pc' = "render" /\ UNCHANGED exitCode
        ELSE /\ pc' = "fatal" /\ exitCode' = 1
             /\ UNCHANGED rstack
    /\ UNCHANGED <<stat, avail, procs, files, stack, ret, failed, opts, rootPid,
                   out, last, lastSort>>

Next ==
    \/ MainFlags
    \/ NextStore
    \/ MainLookup
    \/ MainStyle
    \/ PrintFancyTree
    \/ PrintBoringTree

\* The whole program: any parent pids, loops included, with one metric column,
\* and any set of vanished processes.
Init ==
    \E st \in FixedMetricRecords, av \in SUBSET Pids : InitWith(st, av, "start")

Spec == Init /\ [][Next]_vars

---------------------------------------------------------------------------
(* Reference definitions, from the records alone *)

\* The sum of field f ("RSS" or "CPU") of the records of the pids in S.
RECURSIVE SumField(_, _, _)
SumField(st, S, f) ==
    IF S = {} THEN 0
    ELSE LET q == CHOOSE x \in S : TRUE IN st[q][f] + SumField(st, S \ {q}, f)

SumRSS(st, S) == SumField(st, S, "RSS")

\* p and the processes of the store P below p, by parent pid.
Subtree(P, p) == {q \in DOMAIN P : p \in Chain(stat, q, MaxPid)}

SubtreeRSS(P, p) == SumRSS(stat, Subtree(P, p))

\* The accumulated metric m ("rss" or "cpu") of p.
SubtreeSum(P, p, m) == SumField(stat, Subtree(P, p), Field(m))

\* Where x is in the sequence s.
Pos(s, x) == CHOOSE i \in 1..Len(s) : s[i] = x

\* The pids of the subtree of p in depth-first pre-order, children in the
\* order of their sequences.
RECURSIVE Preorder(_, _)
RECURSIVE PreorderFrom(_, _, _)
PreorderFrom(P, ch, i) ==
    IF i > Len(ch) THEN <<>> ELSE Preorder(P, ch[i]) \o PreorderFrom(P, ch, i + 1)
Preorder(P, p) == <<p>> \o PreorderFrom(P, P[p].Children, 1)

\* The number of ancestors of p.
Depth(p) == Cardinality(Chain(stat, p, MaxPid)) - 1

Range(s) == {s[i] : i \in 1..Len(s)}

Count(s, x) == Cardinality({i \in 1..Len(s) : s[i] = x})

---------------------------------------------------------------------------
(* The claims about the store *)

\* C2: resolving a pid whose ancestor chain has a cycle ends with a
\* CycleDetected error: no pid is ever being resolved twice at once (the
\* recursion would repeat forever) and the run does not die of the recursion.
C2_CycleDetected ==
    /\ pc # "crashed"
    /\ \A i, j \in 1..Len(stack) : i # j => stack[i].pid # stack[j].pid

\* The store P is a loop-free forest.
Forest(P) ==
    /\ \A p \in DOMAIN P : P[p].PPid # 0 => P[p].PPid \in DOMAIN P
    /\ \A q \in DOMAIN P : Range(P[q].Children) \subseteq DOMAIN P
    /\ \A p, q \in DOMAIN P :
        Count(P[q].Children, p) = IF q = P[p].PPid THEN 1 ELSE 0
    /\ \A p \in DOMAIN P : ReachesZero(P, p, MaxPid)

\* A step of ReadProc on a pid that the store already holds.
ResolveKnown ==
    /\ pc = "enum" /\ stack # <<>> /\ Top.at = "entry"
    /\ Top.pid \in DOMAIN procs
    /\ stack' # stack

\* C5: in every state during and after enumeration the store is a loop-free
\* forest (a process with a parent pid has its parent in the store and is
\* exactly once in that parent's children and in no other's, a process with
\* parent pid 0 is in no children sequence, no process is its own ancestor),
\* and resolving a pid of the store changes nothing and reports no error.
C5_LoopFreeForest ==
    /\ [](Forest(procs))
    /\ [][ResolveKnown => (procs' = procs /\ failed' = failed /\ stack' = Pop)]_vars

C5_Witness ==
    /\ pc = "enum" /\ stack # <<>> /\ Top.at = "entry"
    /\ Top.pid \in DOMAIN procs
    /\ \E p \in DOMAIN procs : Len(procs[p].Children) >= 2

\* C6: with loop-free records of which some cannot be read, enumeration is
\* never aborted and never stuck, a pid that cannot be read is in no store
\* entry and no children sequence, and once enumeration is over every pid was
\* resolved or reported, every pid whose whole chain can be read is in the
\* store under its parent, and CalcAccumRSS of every process is the RSS sum of
\* the processes of the store in its subtree.
C6_PartialFailure ==
    (LoopFree(stat) /\ avail # Pids) =>
        /\ pc # "crashed"
        /\ pc = "enum" => ENABLED NextStore
        /\ \A p \in Pids \ avail :
            /\ p \notin DOMAIN procs
            /\ \A q \in DOMAIN procs : p \notin Range(procs[q].Children)
        /\ pc = "lookup" =>
            /\ failed \cup DOMAIN procs = Pids
            /\ \A p \in Pids : Chain(stat, p, MaxPid) \subseteq avail =>
                /\ p \in DOMAIN procs
                /\ stat[p].PPid # 0 => p \in Range(procs[stat[p].PPid].Children)
            /\ \A p \in DOMAIN procs :
                CalcAccumRSS(procs, p).v = SubtreeRSS(procs, p)

C6_Witness ==
    /\ LoopFree(stat) /\ pc = "lookup"
    /\ Cardinality(failed) = 1
    /\ \E p \in DOMAIN procs : procs[p].Children # <<>>

\* C7: for loop-free records that can all be read, whatever the order of
\* enumeration the finished store holds every pid, the children of p are
\* exactly the pids whose parent pid is p, each once, and CalcAccumRSS of every
\* process is the RSS sum of its subtree.
C7_OrderIndependent ==
    (LoopFree(stat) /\ avail = Pids /\ pc = "lookup") =>
        /\ DOMAIN procs = Pids
        /\ \A p \in Pids :
            /\ Range(procs[p].Children) = {c \in Pids : stat[c].PPid = p}
            /\ Len(procs[p].Children) = Cardinality({c \in Pids : stat[c].PPid = p})
            /\ CalcAccumRSS(procs, p).v =
                 SumRSS(stat, {q \in Pids : p \in Chain(stat, q, MaxPid)})

\* A finished store in which a child was read before its elder sibling.
C7_Witness ==
    /\ LoopFree(stat) /\ avail = Pids /\ pc = "lookup"
    /\ \E p \in Pids :
        /\ Len(procs[p].Children) >= 2
        /\ procs[p].Children[1] > procs[p].Children[2]

---------------------------------------------------------------------------
(* The claims about aggregation *)

\* C1: on a finished loop-free store, CalcAccumRSS of any process, after any
\* earlier calls on any processes, returns the RSS of the process plus the RSS
\* of all its descendants.
C1_AccumRSS ==
    /\ last.metric = "rss" => last.val = SubtreeRSS(procs, last.pid)
    /\ pc = "lookup" =>
        \A p \in DOMAIN procs : CalcAccumRSS(procs, p).v = SubtreeRSS(procs, p)

\* A call on a process with grandchildren, after a call on one of its children.
C1_Witness ==
    /\ last.metric = "rss" /\ last.val > 0
    /\ last.writes > 0 /\ last.writes < 2 * Cardinality(Subtree(procs, last.pid)) - 1
    /\ \E c \in Range(procs[last.pid].Children) : procs[c].Children # <<>>

\* C4: a second call of CalcAccumRSS or CalcAccumCPU on the same process returns
\* what the first returned, visits no child and writes no cache field.
C4_NoRecompute ==
    last.again => (last.val = last.prev /\ last.writes = 0 /\ last.visits = 0)

---------------------------------------------------------------------------
(* The claims about sorting *)

\* The children of the process sorted last, and the metric they were sorted by.
Sorted == procs[lastSort.pid].Children
Key(c) == SubtreeSum(procs, c, lastSort.opts.Sort)

\* C3: the sort is stable in both directions: two children with equal
\* accumulated metric are in the same relative order after the sort as before.
C3_Stable ==
    lastSort.pid # 0 =>
        \A i, j \in 1..Len(lastSort.before) :
            (i < j /\ Key(lastSort.before[i]) = Key(lastSort.before[j])) =>
                Pos(Sorted, lastSort.before[i]) < Pos(Sorted, lastSort.before[j])

\* C9: after the sort consecutive children are in non-decreasing order of the
\* accumulated metric, in non-increasing order when reversed, and the sequence
\* is a permutation of the children before the sort.
C9_Sorted ==
    lastSort.pid # 0 =>
        /\ \A i \in 1..(Len(Sorted) - 1) :
            IF lastSort.opts.Reverse
            THEN Key(Sorted[i]) >= Key(Sorted[i + 1])
            ELSE Key(Sorted[i]) <= Key(Sorted[i + 1])
        /\ Len(Sorted) = Len(lastSort.before)
        /\ \A c \in Pids : Count(Sorted, c) = Count(lastSort.before, c)

\* A reversed sort that moved children of different metric.
C9_Witness ==
    /\ lastSort.pid # 0 /\ lastSort.opts.Reverse
    /\ Len(Sorted) >= 2
    /\ Sorted # lastSort.before
    /\ Key(Sorted[1]) > Key(Sorted[2])

---------------------------------------------------------------------------
(* The claims about main and the renderer *)

\* C8: a root pid that is not in the finished store ends the run in the fatal
\* state with a non-zero exit status and no tree line; a tree line is printed
\* only after enumeration is over and the root was found.
C8_RootNotFound ==
    /\ (rootPid # 0 /\ rootPid \notin DOMAIN procs) =>
            (pc = "fatal" /\ exitCode # 0 /\ out = <<>>)
    /\ pc = "fatal" => out = <<>>
    /\ out # <<>> =>
            /\ pc \in {"render", "done"}
            /\ files = {} /\ stack = <<>>
            /\ rootPid \in DOMAIN procs

C8_Witness ==
    /\ pc = "fatal" /\ rootPid # 0 /\ rootPid \notin DOMAIN procs
    /\ procs # << >>

OutPids == [i \in 1..Len(out) |-> out[i].pid]

=============================================================================
